---- MODULE Spec2Model ----
(***************************************************************************)
(* Sign-language recognition: the gesture classification subsystem.        *)
(*                                                                         *)
(* GestureRecognition (src/app.js 240-660): rule detectors, the prediction *)
(* arbiter, the training data store, trainModel / saveModel / loadModel.   *)
(* TrainingManager (src/unnamed/part_000 1-224): training sessions and the *)
(* UI entry points of trainModel / loadModel.                              *)
(* HandDetection (src/unnamed/part_000 225-450): the feature vector of a   *)
(* frame.  SignLanguageApp (src/app.js 1-238): the per-frame callback and  *)
(* the prediction history.                                                 *)
(*                                                                         *)
(* Numbers: confidences and probabilities are in hundredths (0.8 is 80),   *)
(* finger distances and curvature in hundredths, angles in thousandths of  *)
(* a radian.  An async function is one action per stretch of code between  *)
(* two awaits; the handlers of the single JavaScript thread interleave     *)
(* only at awaits.                                                         *)
(***************************************************************************)
EXTENDS Integers, Sequences, FiniteSets, TLC

(***************************************************************************)
(* Bounds of the model                                                     *)
(***************************************************************************)
\* samples accepted by addTrainingData in a behaviour of Spec
MaxAppends == 11
\* samples accepted by addTrainingData in a behaviour of SpecStore
MaxStoreAppends == 3
\* leading samples of the store of Spec that may carry a second label
MaxOther == 1
\* trainModel calls that get as far as installing a model
MaxRuns == 2
\* loadModel calls pending at a time
MaxLoads == 1
\* saveModel calls pending at a time
MaxSaves == 1
\* samples captured in a behaviour of SpecSession
MaxSessionAppends == 51
\* samples accepted by addTrainingData in a behaviour of SpecRound
MaxRoundAppends == 1
\* samples accepted by addTrainingData in a behaviour of SpecInputs
MaxInputAppends == 3
\* landmarks of the longest array handed to extractFeatures
MaxLandmarks == 22
\* entries pushed to predictionHistory between two moments it is empty, in
\* a behaviour of SpecHistory and of SpecWord
MaxHistoryAdded == 11
MaxWordAdded == 3
\* samples accepted by addTrainingData in a behaviour of SpecWord
MaxWordAppends == 1

(***************************************************************************)
(* Program constants                                                       *)
(***************************************************************************)
\* app.js 517: trainingData.length < 10
MinSamples == 10
\* part_000 87: sampleCount >= 50
AutoStopSamples == 50
\* app.js 463: confidence > 0.5
RuleThreshold == 50
\* app.js 270: features.length < 63
MinFeatureLen == 63
\* app.js 278: distance < 0.15
ClosedBelow == 15
\* app.js 293: distance > 0.2
ExtendedAbove == 20
\* app.js 336, 371: thumb / pinky distance > 0.15
ThumbAbove == 15
\* app.js 356: distance > 0.1
MovedAbove == 10
\* part_000 400: landmarks.length < 21
MinLandmarks == 21
\* app.js 7: this.maxHistoryLength = 10
maxHistoryLength == 10
\* app.js 67: prediction.confidence > 0.3
DisplayAbove == 30
\* app.js 89: confidence > 0.6
HistoryAbove == 60

(***************************************************************************)
(* Values                                                                  *)
(***************************************************************************)
\* this.model = null (app.js 242, 658)
\* a model object: src is how it was made ("train", "load"), id the run that
\* made it, units the width of its output layer; trained says of a loaded
\* model whether the saved model had finished training
NoModel == [src |-> "none", id |-> 0, units |-> 0, trained |-> FALSE]

\* label strings; "" stands for an empty or null label (both falsy, app.js 501)
Letters == {"A", "B", "C", "D", "L", "O", "Y", "Q"}

\* String.prototype.toUpperCase on the labels the model feeds in
ToUpperCase(label) ==
    CASE label = "a" -> "A"
      [] label = "b" -> "B"
      [] label = "q" -> "Q"
      [] OTHER -> label

\* Map.prototype.size
MapSize(m) == Cardinality(DOMAIN m)

\* the empty Map
EmptyMap == [x \in {} |-> 0]

\* Map.prototype.set
MapSet(m, k, v) == [x \in DOMAIN m \cup {k} |-> IF x = k THEN v ELSE m[x]]

(***************************************************************************)
(* Feature vectors.  A vector is known to the detectors only through the   *)
(* quantities they compute from it: its length, the five tip-to-base       *)
(* distances (thumb, index, middle, ring, pinky), the thumb-index angle    *)
(* and the curvature.  Vector 0 is null ("no hand"), vector 9 an array of   *)
(* 10 numbers and vector 10 the empty array [].  Vectors 100 .. 342 are     *)
(* the grid of hands: every finger closed, half open or extended, the      *)
(* thumb at a right angle to the index, the hand curved.  Vector            *)
(* 10000 * k + v is the hand of vector v extracted from 21 + k landmarks.   *)
(***************************************************************************)
NullFeatures == 0

\* a tip-to-base distance of the grid: closed, half open, extended
GridDistance(level) == CASE level = 0 -> 5 [] level = 1 -> 17 [] OTHER -> 30

\* the hand of the grid with the given code: five base-3 digits for the
\* fingers
GridHand(code) ==
    [len |-> 73,
     dist |-> <<GridDistance(code % 3), GridDistance((code \div 3) % 3),
                GridDistance((code \div 9) % 3), GridDistance((code \div 27) % 3),
                GridDistance((code \div 81) % 3)>>,
     angle |-> 1571, curv |-> 70]

\* the vectors of the grid
GridVectors == 100 .. (100 + 243 - 1)

\* the length of the array extractFeatures builds from n landmarks: three
\* numbers a landmark, then distance and angle of the five fingers
\* (part_000 408-436)
ExtractedLength(n) == 3 * n + 2 * 5

RECURSIVE Hand(_)
Hand(id) ==
    CASE id = 1 -> [len |-> 73, dist |-> <<10, 5, 5, 5, 5>>, angle |-> 0, curv |-> 100]
      [] id = 2 -> [len |-> 73, dist |-> <<10, 30, 30, 30, 30>>, angle |-> 0, curv |-> 10]
      [] id = 3 -> [len |-> 73, dist |-> <<17, 17, 17, 17, 17>>, angle |-> 0, curv |-> 50]
      [] id = 4 -> [len |-> 73, dist |-> <<17, 17, 17, 17, 17>>, angle |-> 0, curv |-> 70]
      [] id = 5 -> [len |-> 73, dist |-> <<10, 30, 5, 5, 5>>, angle |-> 0, curv |-> 10]
      [] id = 6 -> [len |-> 73, dist |-> <<30, 30, 5, 5, 5>>, angle |-> 1571, curv |-> 10]
      [] id = 7 -> [len |-> 73, dist |-> <<30, 5, 5, 5, 30>>, angle |-> 0, curv |-> 10]
      [] id = 8 -> [len |-> 73, dist |-> <<17, 17, 17, 17, 17>>, angle |-> 0, curv |-> 10]
      [] id = 9 -> [len |-> 10, dist |-> <<0, 0, 0, 0, 0>>, angle |-> 0, curv |-> 0]
      [] id = 10 -> [len |-> 0, dist |-> <<0, 0, 0, 0, 0>>, angle |-> 0, curv |-> 0]
      [] id = 11 -> [len |-> 73, dist |-> <<17, 30, 5, 5, 5>>, angle |-> 1571, curv |-> 10]
      [] id \in GridVectors -> GridHand(id - 100)
      [] id >= 10000 ->
            [Hand(id % 10000) EXCEPT !.len = ExtractedLength(MinLandmarks + id \div 10000)]
      [] OTHER -> [len |-> 0, dist |-> <<0, 0, 0, 0, 0>>, angle |-> 0, curv |-> 0]

\* results.multiHandLandmarks[0] is a record: count is the number of
\* landmarks of the array, hand the vector a complete hand of 21 landmarks
\* gives; NullLandmarks is null
NullLandmarks == [count |-> 0, hand |-> 0]

\* HandDetection.extractFeatures(landmarks) (part_000 399-439): null, or the
\* vector of all the landmarks handed in
extractFeatures(landmarks) ==
    IF landmarks = NullLandmarks \/ landmarks.count < MinLandmarks
    THEN NullFeatures
    ELSE landmarks.hand + 10000 * (landmarks.count - MinLandmarks)

\* getFingerDistance(features, fingerIndex), fingerIndex 0..4
getFingerDistance(features, fingerIndex) == Hand(features).dist[fingerIndex + 1]

\* getFingerAngle(features, 0, 1)
getFingerAngle(features) == Hand(features).angle

\* calculateCurvature(features)
calculateCurvature(features) ==
    IF features = NullFeatures \/ Hand(features).len < MinFeatureLen
    THEN 0
    ELSE Hand(features).curv

\* the guard every detector starts with
TooShort(features) == features = NullFeatures \/ Hand(features).len < MinFeatureLen

(***************************************************************************)
(* State                                                                   *)
(***************************************************************************)
VARIABLES
    model,          \* GestureRecognition.model
    isTraining,     \* GestureRecognition.isTraining
    trainingData,   \* GestureRecognition.trainingData
    labels,         \* GestureRecognition.labels
    labelMap,       \* GestureRecognition.labelMap
    reverseMap,     \* GestureRecognition.reverseMap
    tmIsTraining,   \* TrainingManager.isTraining
    currentLabel,   \* TrainingManager.currentLabel
    sampleCount,    \* TrainingManager.sampleCount
    runs,           \* the trainModel calls that installed a model, in call order
    loads,          \* the loadModel calls waiting at an await
    saves,          \* the saveModel calls waiting at an await
    disk,           \* the artifacts the last completed saveModel wrote
    sessionSamples, \* history: samples captured since the last startTraining
    appended,       \* history: samples accepted by addTrainingData so far
    predictionHistory, \* SignLanguageApp.predictionHistory
    historyAdded,   \* history: entries pushed to predictionHistory since it was last empty
    lastOp          \* history: the last call or continuation and what it returned

grVars == <<model, isTraining, trainingData, labels, labelMap, reverseMap, appended>>
tmVars == <<tmIsTraining, currentLabel, sampleCount, sessionSamples>>
storeVars == <<trainingData, labels, labelMap, reverseMap, appended>>
asyncVars == <<runs, loads, saves, disk>>
appVars == <<predictionHistory, historyAdded>>
vars == <<grVars, tmVars, asyncVars, appVars, lastOp>>

\* the record of a call: op names it, res is its outcome, run the training
\* run it belongs to, features and label its arguments; for predict, letter
\* and conf are the returned record, ml whether the trainable classifier was
\* consulted, and mlIndex / mlConf / mlThrows what this.model.predict yields
\* on the argument (arg-max index, its probability, or an exception)
Op(op, res) ==
    [op |-> op, res |-> res, run |-> 0, features |-> 0, label |-> "",
     letter |-> "", conf |-> 0, ml |-> FALSE,
     mlIndex |-> 0, mlConf |-> 0, mlThrows |-> FALSE]

\* no artifacts written yet; units and trained describe the model artifact,
\* labelMap (the entries of the JSON object), trainingData and labels the
\* metadata document; saved is history: getTrainingStats(), this.labelMap
\* and this.reverseMap when the metadata was written
NoDisk == [present |-> FALSE, units |-> 0, trained |-> FALSE, labelMap |-> <<>>,
           trainingData |-> <<>>, labels |-> <<>>,
           saved |-> [stats |-> EmptyMap, labelMap |-> EmptyMap, reverseMap |-> EmptyMap]]

\* the state after the constructors (app.js 241-253, part_000 2-10)
Init ==
    /\ model = NoModel
    /\ isTraining = FALSE
    /\ trainingData = <<>>
    /\ labels = <<>>
    /\ labelMap = EmptyMap
    /\ reverseMap = EmptyMap
    /\ tmIsTraining = FALSE
    /\ currentLabel = ""
    /\ sampleCount = 0
    /\ runs = <<>>
    /\ loads = <<>>
    /\ saves = <<>>
    /\ disk = NoDisk
    /\ sessionSamples = 0
    /\ appended = 0
    /\ predictionHistory = <<>>
    /\ historyAdded = 0
    /\ lastOp = Op("init", "ok")

(***************************************************************************)
(* Training data store                                                     *)
(***************************************************************************)
\* how many entries of seq s equal x
Count(s, x) == Cardinality({i \in DOMAIN s : s[i] = x})

\* the rejection test of addTrainingData (app.js 501)
AddRejected(features, label) == features = NullFeatures \/ label = ""

\* AddLabelMap numbering the labels from 1
AddLabelMapFromOne(lm, label) ==
    IF ToUpperCase(label) \in DOMAIN lm
    THEN lm
    ELSE MapSet(lm, ToUpperCase(label), MapSize(lm) + 1)

\* labelMap after addTrainingData(features, label) (app.js 507-511)
AddLabelMap(lm, label) ==
    IF ToUpperCase(label) \in DOMAIN lm
    THEN lm
    ELSE MapSet(lm, ToUpperCase(label), MapSize(lm))

\* reverseMap after addTrainingData(features, label) (app.js 507-511)
AddReverseMap(lm, rm, label) ==
    IF ToUpperCase(label) \in DOMAIN lm
    THEN rm
    ELSE MapSet(rm, MapSize(lm), ToUpperCase(label))

\* AddTrainingDataBody putting the sample in front of the stored ones
AddTrainingDataFront(features, label) ==
    IF AddRejected(features, label)
    THEN UNCHANGED <<trainingData, labels, labelMap, reverseMap, appended>>
    ELSE /\ appended' = appended + 1
         /\ trainingData' = <<features>> \o trainingData
         /\ labels' = <<ToUpperCase(label)>> \o labels
         /\ labelMap' = AddLabelMap(labelMap, label)
         /\ reverseMap' = AddReverseMap(labelMap, reverseMap, label)

\* the body of addTrainingData: the effect on the store variables
AddTrainingDataBody(features, label) ==
    IF AddRejected(features, label)
    THEN UNCHANGED <<trainingData, labels, labelMap, reverseMap, appended>>
    ELSE /\ appended' = appended + 1
         /\ trainingData' = Append(trainingData, features)
         /\ labels' = Append(labels, ToUpperCase(label))
         /\ labelMap' = AddLabelMap(labelMap, label)
         /\ reverseMap' = AddReverseMap(labelMap, reverseMap, label)

\* the inputs the model gives to addTrainingData within the bounds
WithinStore(features, label, cap) ==
    \/ AddRejected(features, label)
    \/ appended < cap

\* GestureRecognition.addTrainingData(features, label)
AddTrainingData(features, label, cap) ==
    /\ WithinStore(features, label, cap)
    /\ AddTrainingDataBody(features, label)
    /\ lastOp' = [Op("addTrainingData",
                      IF AddRejected(features, label) THEN "noop" ELSE "added")
                      EXCEPT !.features = features, !.label = label]
    /\ UNCHANGED <<model, isTraining, tmVars, asyncVars, appVars>>

\* the object getTrainingStats builds from a labels array (app.js 644-648)
StatsOf(ls) == [l \in {ls[i] : i \in DOMAIN ls} |-> Count(ls, l)]

\* GestureRecognition.getTrainingStats()
getTrainingStats == StatsOf(labels)

\* a call of getTrainingStats(): it reads labels and returns a new object
CallGetTrainingStats ==
    /\ lastOp' = Op("getTrainingStats", "ok")
    /\ UNCHANGED <<grVars, tmVars, asyncVars, appVars>>

\* GestureRecognition.clearTrainingData()
ClearTrainingData ==
    /\ trainingData' = <<>>
    /\ labels' = <<>>
    /\ labelMap' = EmptyMap
    /\ reverseMap' = EmptyMap
    /\ model' = NoModel
    /\ lastOp' = Op("clearTrainingData", "ok")
    /\ UNCHANGED <<isTraining, appended, tmVars, asyncVars, appVars>>

(***************************************************************************)
(* Rule-based classifier                                                   *)
(***************************************************************************)
\* detectA (app.js 269-287)
detectA(features) ==
    IF TooShort(features) THEN 0
    ELSE IF /\ getFingerDistance(features, 1) < ClosedBelow
            /\ getFingerDistance(features, 2) < ClosedBelow
            /\ getFingerDistance(features, 3) < ClosedBelow
            /\ getFingerDistance(features, 4) < ClosedBelow
         THEN 80 ELSE 10

\* detectB (app.js 289-303)
detectB(features) ==
    IF TooShort(features) THEN 0
    ELSE IF /\ getFingerDistance(features, 1) > ExtendedAbove
            /\ getFingerDistance(features, 2) > ExtendedAbove
            /\ getFingerDistance(features, 3) > ExtendedAbove
            /\ getFingerDistance(features, 4) > ExtendedAbove
            /\ getFingerDistance(features, 0) < ClosedBelow
         THEN 75 ELSE 10

\* detectC (app.js 305-314)
detectC(features) ==
    IF TooShort(features) THEN 0
    ELSE IF calculateCurvature(features) > 30 /\ calculateCurvature(features) < 80
         THEN 70 ELSE 10

\* detectD (app.js 316-329)
detectD(features) ==
    IF TooShort(features) THEN 0
    ELSE IF /\ getFingerDistance(features, 1) > ExtendedAbove
            /\ getFingerDistance(features, 2) < ClosedBelow
            /\ getFingerDistance(features, 3) < ClosedBelow
            /\ getFingerDistance(features, 4) < ClosedBelow
         THEN 75 ELSE 10

\* Math.abs(angle - Math.PI/2) < 0.5, the angle in thousandths of a radian
RightAngle(angle) ==
    /\ angle * 1000 - 1570796 < 500000
    /\ 1570796 - angle * 1000 < 500000

\* detectL (app.js 331-349)
detectL(features) ==
    IF TooShort(features) THEN 0
    ELSE IF /\ getFingerDistance(features, 1) > ExtendedAbove
            /\ getFingerDistance(features, 0) > ThumbAbove
            /\ getFingerDistance(features, 2) < ClosedBelow
            /\ getFingerDistance(features, 3) < ClosedBelow
            /\ getFingerDistance(features, 4) < ClosedBelow
            /\ RightAngle(getFingerAngle(features))
         THEN 80 ELSE 10

\* detectO (app.js 351-365)
detectO(features) ==
    IF TooShort(features) THEN 0
    ELSE IF /\ calculateCurvature(features) > 60
            /\ calculateCurvature(features) < 90
            /\ getFingerDistance(features, 1) > MovedAbove
            /\ getFingerDistance(features, 2) > MovedAbove
            /\ getFingerDistance(features, 3) > MovedAbove
            /\ getFingerDistance(features, 4) > MovedAbove
         THEN 70 ELSE 10

\* detectY (app.js 367-381)
detectY(features) ==
    IF TooShort(features) THEN 0
    ELSE IF /\ getFingerDistance(features, 0) > ThumbAbove
            /\ getFingerDistance(features, 4) > ThumbAbove
            /\ getFingerDistance(features, 1) < ClosedBelow
            /\ getFingerDistance(features, 2) < ClosedBelow
            /\ getFingerDistance(features, 3) < ClosedBelow
         THEN 75 ELSE 10

\* the registry of initializeBasicModel, in Object.entries order
basicRules == <<"A", "B", "C", "D", "L", "O", "Y">>

\* basicRules[letter](features)
Detector(letter, features) ==
    CASE letter = "A" -> detectA(features)
      [] letter = "B" -> detectB(features)
      [] letter = "C" -> detectC(features)
      [] letter = "D" -> detectD(features)
      [] letter = "L" -> detectL(features)
      [] letter = "O" -> detectO(features)
      [] letter = "Y" -> detectY(features)

\* a held best prediction; letter "null" is bestPrediction = null
Best(letter, conf) == [letter |-> letter, conf |-> conf]

\* RuleWins with a confidence equal to the held best replacing it
RuleWinsOnTie(confidence, bestConfidence) ==
    confidence >= bestConfidence /\ confidence > RuleThreshold

\* does a detector's confidence replace the held best (app.js 463)
RuleWins(confidence, bestConfidence) ==
    confidence > bestConfidence /\ confidence > RuleThreshold

\* the loop over the registry from entry i on (app.js 461-467)
RECURSIVE RuleLoop(_, _, _)
RuleLoop(features, i, best) ==
    IF i > Len(basicRules) THEN best
    ELSE RuleLoop(features, i + 1,
                  IF RuleWins(Detector(basicRules[i], features), best.conf)
                  THEN Best(basicRules[i], Detector(basicRules[i], features))
                  ELSE best)

\* bestPrediction / bestConfidence after the rule loop
RuleBest(features) == RuleLoop(features, 1, Best("null", 0))

(***************************************************************************)
(* Prediction arbiter                                                      *)
(***************************************************************************)
\* is the trainable classifier consulted (app.js 470)
ModelConsulted == model # NoModel /\ Len(trainingData) > 0

\* this.reverseMap.get(maxIndex)
ReverseGet(maxIndex) ==
    IF maxIndex \in DOMAIN reverseMap THEN reverseMap[maxIndex] ELSE "undefined"

\* does the trainable classifier replace the held best (app.js 482)
MlWins(mlConfidence, bestConfidence) == mlConfidence > bestConfidence

\* bestPrediction / bestConfidence at the end of predict for non-null features;
\* ml is what this.model.predict does on them
Arbitrate(features, ml) ==
    IF ModelConsulted /\ ~ml.throws /\ MlWins(ml.conf, RuleBest(features).conf)
    THEN Best(ReverseGet(ml.index), ml.conf)
    ELSE RuleBest(features)

\* the value predict returns: "null" or a record
PredictReturn(features) == IF features = NullFeatures THEN "null" ELSE "record"

\* probabilities the trainable classifier's arg-max takes in the model
MLConfidences == {60, 80, 90}

\* what this.model.predict may do on a feature vector: throw, or yield an
\* arg-max index below the width of the model's output layer
MlOutputs ==
    {[throws |-> TRUE, index |-> 0, conf |-> 0]} \cup
    {[throws |-> FALSE, index |-> i, conf |-> c] :
        i \in 0 .. (model.units - 1), c \in MLConfidences}

\* feature vectors the per-frame callback hands to predict in Spec
PredictInputs == {NullFeatures, 6, 8}

\* GestureRecognition.predict(features)
Predict(features, ml) ==
    /\ ~ModelConsulted => ml.throws
    /\ lastOp' = IF features = NullFeatures
                 THEN Op("predict", "null")
                 ELSE [Op("predict", PredictReturn(features)) EXCEPT
                          !.letter = Arbitrate(features, ml).letter,
                          !.conf = Arbitrate(features, ml).conf,
                          !.ml = ModelConsulted,
                          !.features = features,
                          !.mlIndex = IF ModelConsulted THEN ml.index ELSE 0,
                          !.mlConf = IF ModelConsulted THEN ml.conf ELSE 0,
                          !.mlThrows = ModelConsulted /\ ml.throws]
    /\ UNCHANGED <<grVars, tmVars, asyncVars, appVars>>

(***************************************************************************)
(* trainModel.  A call that passes the sample gate is a run: the code up   *)
(* to the await of fit is one action; the continuation after fit resolved  *)
(* or rejected is another.                                                  *)
(***************************************************************************)
\* InsufficientData with the gate one sample too low
InsufficientDataBelow(n) == n < MinSamples - 1

\* the sample gate (app.js 517)
InsufficientData(n) == n < MinSamples

\* tf.tensor2d(this.trainingData): a copy of the samples (app.js 525)
Tensor2d(data) == data

\* the rows of trainingData differ in length: tf.tensor2d throws
Ragged(data) == \E i, j \in DOMAIN data : Hand(data[i]).len # Hand(data[j]).len

\* this.labels.map(label => this.labelMap.get(label)), the indices one-hot
\* encoded (app.js 526); an unmapped label is undefined, index 0 as int32
LabelIndices(ls, lm) == [i \in DOMAIN ls |-> IF ls[i] \in DOMAIN lm THEN lm[ls[i]] ELSE 0]

\* the model tf.sequential builds in run k (app.js 529-547)
NewModel(k) == [src |-> "train", id |-> k, units |-> MapSize(labelMap), trained |-> FALSE]

\* the record of run k as trainModel leaves it at its first await or throw
NewRun(status, failedAt) ==
    [status |-> status, failedAt |-> failedAt,
     mdl |-> NewModel(Len(runs) + 1), prevModel |-> model,
     xs |-> Tensor2d(trainingData), ys |-> LabelIndices(labels, labelMap),
     startData |-> trainingData, startLabels |-> labels, startMap |-> labelMap,
     trainedX |-> <<>>, trainedY |-> <<>>]

\* where the synchronous part of a run may throw: building the tensors,
\* tf.sequential, compile; "none" reaches the await of fit
FailPoints == {"none", "data", "construct", "compile"}

\* this.model when the synchronous part of run k ends (app.js 529)
ModelAfterStart(failAt) ==
    IF failAt \in {"data", "construct"} THEN model ELSE NewModel(Len(runs) + 1)

\* FitInput reading the store when fit runs instead of the tensors built at
\* the start of the run
FitInputLive(run) == [xs |-> Tensor2d(trainingData), ys |-> LabelIndices(labels, labelMap)]

\* the tensors fit trains on (app.js 557)
FitInput(run) == [xs |-> run.xs, ys |-> run.ys]

\* GestureRecognition.trainModel() up to its first await, called as opname
GRTrainModel(opname, failAt) ==
    IF InsufficientData(Len(trainingData))
    THEN /\ lastOp' = Op(opname, "InsufficientData")
         /\ UNCHANGED <<grVars, tmVars, asyncVars, appVars>>
    ELSE /\ Ragged(trainingData) => failAt = "data"
         /\ failAt \in {"none", "compile"} => Len(runs) < MaxRuns
         /\ model' = ModelAfterStart(failAt)
         /\ isTraining' = (failAt = "none")
         /\ runs' = IF failAt \in {"none", "compile"}
                    THEN Append(runs, NewRun(IF failAt = "none" THEN "fitting" ELSE "rejected",
                                             failAt))
                    ELSE runs
         /\ lastOp' = [Op(opname, IF failAt = "none" THEN "pending" ELSE "error")
                           EXCEPT !.run = IF failAt \in {"none", "compile"}
                                          THEN Len(runs) + 1 ELSE 0]
         /\ UNCHANGED <<storeVars, tmVars, loads, saves, disk, appVars>>

\* a direct call of GestureRecognition.trainModel()
TrainModel(failAt) ==
    /\ InsufficientData(Len(trainingData)) => failAt = "none"
    /\ GRTrainModel("trainModel", failAt)

\* TrainingManager.trainModel(), the entry point of debugCommands.trainModel
\* and checkAutoTrain (part_000 136-161, 220; app.js 236)
TMTrainModel(failAt) ==
    IF Len(trainingData) < MinSamples
    THEN /\ failAt = "none"
         /\ lastOp' = Op("TrainingManager.trainModel", "alert")
         /\ UNCHANGED <<grVars, tmVars, asyncVars, appVars>>
    ELSE GRTrainModel("TrainingManager.trainModel", failAt)

\* the await of fit resolved in run k (app.js 569-575)
FitResolve(k) ==
    /\ k \in DOMAIN runs
    /\ runs[k].status = "fitting"
    /\ runs' = [runs EXCEPT ![k].status = "resolved",
                            ![k].trainedX = FitInput(runs[k]).xs,
                            ![k].trainedY = FitInput(runs[k]).ys,
                            ![k].xs = <<>>, ![k].ys = <<>>]
    /\ isTraining' = FALSE
    /\ lastOp' = [Op("fit", "resolved") EXCEPT !.run = k]
    /\ UNCHANGED <<model, storeVars, tmVars, loads, saves, disk, appVars>>

\* the await of fit rejected in run k (app.js 577-581)
FitReject(k) ==
    /\ k \in DOMAIN runs
    /\ runs[k].status = "fitting"
    /\ runs' = [runs EXCEPT ![k].status = "rejected", ![k].failedAt = "fit"]
    /\ isTraining' = FALSE
    /\ lastOp' = [Op("fit", "error") EXCEPT !.run = k]
    /\ UNCHANGED <<model, storeVars, tmVars, loads, saves, disk, appVars>>

\* has the training of model m finished successfully; a loaded model is as
\* trained as the model that was saved
FullyTrained(m) ==
    \/ m.src = "load" /\ m.trained
    \/ m.src = "train" /\ runs[m.id].status = "resolved"

\* the runs whose fit is pending
InFlight == {k \in DOMAIN runs : runs[k].status = "fitting"}

(***************************************************************************)
(* saveModel and loadModel                                                 *)
(***************************************************************************)
\* the key of Map lm that i-1 keys precede: the entries of labelMap are
\* inserted in the order of their indices
KeyAt(lm, i) ==
    CHOOSE key \in DOMAIN lm : Cardinality({o \in DOMAIN lm : lm[o] < lm[key]}) = i - 1

\* ObjectFromEntries writing every index one too high
ObjectFromEntriesOneBased(lm) ==
    [i \in 1 .. MapSize(lm) |-> [key |-> KeyAt(lm, i), value |-> lm[KeyAt(lm, i)] + 1]]

\* Object.fromEntries(map) written by JSON.stringify: the entries of the Map
\* in insertion order (app.js 594)
ObjectFromEntries(lm) ==
    [i \in 1 .. MapSize(lm) |-> [key |-> KeyAt(lm, i), value |-> lm[KeyAt(lm, i)]]]

\* new Map(Object.entries(object)) on what JSON.parse gives back (app.js 626)
RECURSIVE MapFromEntries(_, _)
MapFromEntries(entries, m) ==
    IF entries = <<>>
    THEN m
    ELSE MapFromEntries(Tail(entries), MapSet(m, Head(entries).key, Head(entries).value))

\* the metadata document saveModel writes (app.js 593-599); the strings of
\* labels and the finite numbers of trainingData survive JSON unchanged
Metadata ==
    [labelMap |-> ObjectFromEntries(labelMap), trainingData |-> trainingData,
     labels |-> labels]

\* sequence s without its entry k
Remove(s, k) == SubSeq(s, 1, k - 1) \o SubSeq(s, k + 1, Len(s))

\* GestureRecognition.saveModel() up to the await of model.save
SaveModel ==
    IF model = NoModel
    THEN /\ lastOp' = Op("saveModel", "NoModel")
         /\ UNCHANGED <<grVars, tmVars, asyncVars, appVars>>
    ELSE /\ Len(saves) < MaxSaves
         /\ saves' = Append(saves, [mdl |-> model, trained |-> FullyTrained(model)])
         /\ lastOp' = Op("saveModel", "pending")
         /\ UNCHANGED <<grVars, tmVars, runs, loads, disk, appVars>>

\* model.save resolved in call k: the metadata is built from the store as it
\* is now and downloaded (app.js 592-607)
SaveResolve(k) ==
    /\ k \in DOMAIN saves
    /\ saves' = Remove(saves, k)
    /\ disk' = [present |-> TRUE, units |-> saves[k].mdl.units,
                trained |-> saves[k].trained,
                labelMap |-> Metadata.labelMap,
                trainingData |-> Metadata.trainingData,
                labels |-> Metadata.labels,
                saved |-> [stats |-> getTrainingStats, labelMap |-> labelMap,
                           reverseMap |-> reverseMap]]
    /\ lastOp' = Op("save", "resolved")
    /\ UNCHANGED <<grVars, tmVars, runs, loads, appVars>>

\* model.save rejected in call k (app.js 608-611)
SaveReject(k) ==
    /\ k \in DOMAIN saves
    /\ saves' = Remove(saves, k)
    /\ lastOp' = Op("save", "error")
    /\ UNCHANGED <<grVars, tmVars, runs, loads, disk, appVars>>

\* what may be wrong with the metadata file handed to loadModel
Corruptions == {"none", "unparsable", "noLabelMap", "noTrainingData", "noLabels"}

\* the files argument: which of the three artifacts it holds
FileSets == [model : BOOLEAN, weights : BOOLEAN, metadata : BOOLEAN]

\* AllArtifacts without the test of the metadata file
AllArtifactsButMetadata(files) == files.model /\ files.weights

\* the artifact check of loadModel (app.js 617)
AllArtifacts(files) == files.model /\ files.weights /\ files.metadata

\* GestureRecognition.loadModel(files) up to the await of tf.loadLayersModel,
\* called as opname; the files are those on disk; prevModel is history:
\* this.model when the call was made
GRLoadModel(opname, files) ==
    /\ (files.model \/ files.weights \/ files.metadata) => disk.present
    /\ IF ~AllArtifacts(files)
       THEN /\ lastOp' = Op(opname, "MissingFiles")
            /\ UNCHANGED <<grVars, tmVars, asyncVars, appVars>>
       ELSE /\ Len(loads) < MaxLoads
            /\ loads' = Append(loads, [pc |-> "model", doc |-> disk, prevModel |-> model])
            /\ lastOp' = Op(opname, "pending")
            /\ UNCHANGED <<grVars, tmVars, runs, saves, disk, appVars>>

\* a direct call of GestureRecognition.loadModel(files)
LoadModel(files) == GRLoadModel("loadModel", files)

\* e.target.files.length for a selection among the three artifacts
FilesLength(files) ==
    (IF files.model THEN 1 ELSE 0) + (IF files.weights THEN 1 ELSE 0)
        + (IF files.metadata THEN 1 ELSE 0)

\* the onchange handler of TrainingManager.loadModel() with the files
\* selected: fewer than two give an alert, otherwise the files found by name
\* go to GestureRecognition.loadModel, whose error is shown as an alert
\* (part_000 179-204)
TMLoadModel(files) ==
    IF FilesLength(files) < 2
    THEN /\ files.model \/ files.weights \/ files.metadata => disk.present
         /\ lastOp' = Op("TrainingManager.loadModel", "alert")
         /\ UNCHANGED <<grVars, tmVars, asyncVars, appVars>>
    ELSE GRLoadModel("TrainingManager.loadModel", files)

\* tf.loadLayersModel resolved in call k: the model is installed and the
\* metadata text awaited (app.js 618-621)
LoadArtifactResolve(k) ==
    /\ k \in DOMAIN loads
    /\ loads[k].pc = "model"
    /\ model' = [src |-> "load", id |-> 0, units |-> loads[k].doc.units,
                 trained |-> loads[k].doc.trained]
    /\ loads' = [loads EXCEPT ![k].pc = "metadata"]
    /\ lastOp' = Op("loadLayersModel", "resolved")
    /\ UNCHANGED <<isTraining, storeVars, tmVars, runs, saves, disk, appVars>>

\* tf.loadLayersModel rejected in call k (app.js 637-640)
LoadArtifactReject(k) ==
    /\ k \in DOMAIN loads
    /\ loads[k].pc = "model"
    /\ loads' = Remove(loads, k)
    /\ lastOp' = Op("loadLayersModel", "error")
    /\ UNCHANGED <<grVars, tmVars, runs, saves, disk, appVars>>

\* the reverse map loadModel rebuilds (app.js 627-630)
InvertMap(lm) ==
    [v \in {lm[key] : key \in DOMAIN lm} |-> CHOOSE key \in DOMAIN lm : lm[key] = v]

\* the labelMap of a metadata file not written by saveModel: the labels of
\* lm with indices that leave gaps (0, 2, 4, ...)
SparseMap(lm) == [l \in DOMAIN lm |-> 2 * lm[l]]

\* metadata.trainingData || [] and its siblings (app.js 624-626); the text
\* "sparseLabelMap" is a well-formed document with a labelMap as SparseMap
LoadedData(doc, corrupt) == IF corrupt = "noTrainingData" THEN <<>> ELSE doc.trainingData
LoadedLabels(doc, corrupt) == IF corrupt = "noLabels" THEN <<>> ELSE doc.labels
LoadedLabelMap(doc, corrupt) ==
    CASE corrupt = "noLabelMap" -> EmptyMap
      [] corrupt = "sparseLabelMap" -> SparseMap(MapFromEntries(doc.labelMap, EmptyMap))
      [] OTHER -> MapFromEntries(doc.labelMap, EmptyMap)

\* the metadata text arrived in call k: it is parsed and the store replaced,
\* or JSON.parse throws (app.js 622-633, 637-640); corrupt is what is wrong
\* with the text the file holds
LoadMetadata(k, corrupt) ==
    /\ k \in DOMAIN loads
    /\ loads[k].pc = "metadata"
    /\ IF corrupt = "unparsable"
       THEN /\ loads' = Remove(loads, k)
            /\ lastOp' = Op("loadMetadata", "error")
            /\ UNCHANGED <<grVars, tmVars, runs, saves, disk, appVars>>
       ELSE /\ trainingData' = LoadedData(loads[k].doc, corrupt)
            /\ labels' = LoadedLabels(loads[k].doc, corrupt)
            /\ labelMap' = LoadedLabelMap(loads[k].doc, corrupt)
            /\ reverseMap' = InvertMap(LoadedLabelMap(loads[k].doc, corrupt))
            /\ loads' = Remove(loads, k)
            /\ lastOp' = Op("loadMetadata", "loaded")
            /\ UNCHANGED <<model, isTraining, appended, tmVars, runs, saves, disk, appVars>>

(***************************************************************************)
(* Training sessions (TrainingManager)                                     *)
(***************************************************************************)
\* the label test of toggleTraining (part_000 43): one letter A-Z
ValidLabel(value) == value \in Letters

\* TrainingManager.startTraining(label)
StartTrainingBody(label) ==
    /\ tmIsTraining' = TRUE
    /\ currentLabel' = label
    /\ sessionSamples' = 0

\* TrainingManager.stopTraining()
StopTrainingBody ==
    /\ tmIsTraining' = FALSE
    /\ currentLabel' = ""

\* startTraining(label) called on the control surface
StartTraining(label) ==
    /\ StartTrainingBody(label)
    /\ lastOp' = Op("startTraining", "ok")
    /\ UNCHANGED <<grVars, sampleCount, asyncVars, appVars>>

\* stopTraining() called on the control surface
StopTraining ==
    /\ StopTrainingBody
    /\ lastOp' = Op("stopTraining", "ok")
    /\ UNCHANGED <<grVars, sampleCount, sessionSamples, asyncVars, appVars>>

\* TrainingManager.toggleTraining() with value in the label field
ToggleTraining(value) ==
    /\ IF ~tmIsTraining
       THEN IF ValidLabel(value)
            THEN /\ StartTrainingBody(value)
                 /\ lastOp' = Op("toggleTraining", "started")
            ELSE /\ lastOp' = Op("toggleTraining", "alert")
                 /\ UNCHANGED <<tmIsTraining, currentLabel, sessionSamples>>
       ELSE /\ StopTrainingBody
            /\ lastOp' = Op("toggleTraining", "stopped")
            /\ UNCHANGED sessionSamples
    /\ UNCHANGED <<grVars, sampleCount, asyncVars, appVars>>

\* does captureTrainingData stop the session after this sample (part_000 87)
AutoStop(count) == count >= AutoStopSamples

\* CaptureIgnored without the test of isTraining
CaptureIgnoredNullOnly(features) == features = NullFeatures

\* the early return of captureTrainingData (part_000 77)
CaptureIgnored(features) == ~tmIsTraining \/ features = NullFeatures

\* TrainingManager.captureTrainingData(features): the sample is stored, and
\* at the threshold toggleTraining stops the session and showTrainingComplete
\* signals completion and resets sampleCount
CaptureTrainingData(features, cap) ==
    IF CaptureIgnored(features)
    THEN /\ lastOp' = Op("captureTrainingData", "noop")
         /\ UNCHANGED <<grVars, tmVars, asyncVars, appVars>>
    ELSE /\ WithinStore(features, currentLabel, cap)
         /\ AddTrainingDataBody(features, currentLabel)
         /\ sessionSamples' = sessionSamples + 1
         /\ IF AutoStop(sampleCount + 1)
            THEN /\ StopTrainingBody
                 /\ sampleCount' = 0
                 /\ lastOp' = Op("captureTrainingData", "complete")
            ELSE /\ sampleCount' = sampleCount + 1
                 /\ lastOp' = Op("captureTrainingData", "captured")
                 /\ UNCHANGED <<tmIsTraining, currentLabel>>
         /\ UNCHANGED <<model, isTraining, asyncVars, appVars>>

(***************************************************************************)
(* Frames (HandDetection, SignLanguageApp)                                 *)
(***************************************************************************)
\* a call of HandDetection.extractFeatures(landmarks)
ExtractFeatures(landmarks) ==
    /\ lastOp' = [Op("extractFeatures",
                      IF extractFeatures(landmarks) = NullFeatures THEN "null" ELSE "vector")
                      EXCEPT !.features = extractFeatures(landmarks)]
    /\ UNCHANGED <<grVars, tmVars, asyncVars, appVars>>

\* Evicts with the limit one entry higher
EvictsLate(length) == length > maxHistoryLength + 1

\* is the oldest entry shifted out after a push (app.js 118)
Evicts(length) == length > maxHistoryLength

\* is the letter left out as a repetition of the last entry (app.js 113-114)
Repeats(history, letter) == history # <<>> /\ history[Len(history)].letter = letter

\* predictionHistory after addToHistory(letter, confidence) (app.js 104-124);
\* the timestamp of an entry is left out
addToHistory(history, letter, confidence) ==
    IF Repeats(history, letter)
    THEN history
    ELSE IF Evicts(Len(history) + 1)
         THEN Tail(Append(history, [letter |-> letter, confidence |-> confidence]))
         ELSE Append(history, [letter |-> letter, confidence |-> confidence])

\* predictionHistory after updatePrediction(letter, confidence) (app.js 79-92)
updatePrediction(history, letter, confidence) ==
    IF confidence > HistoryAbove THEN addToHistory(history, letter, confidence) ELSE history

\* predictionHistory after processGestureFeatures got prediction from predict
\* (app.js 67-71); predict returns a record for every feature vector
processGestureFeatures(history, prediction) ==
    IF prediction.conf > DisplayAbove
    THEN updatePrediction(history, prediction.letter, prediction.conf)
    ELSE history

\* what TrainingManager.captureTrainingData(features) does to the store and
\* the session when a frame arrives during a session (part_000 76-91)
CaptureOfFrame(features, cap) ==
    IF CaptureIgnored(features)
    THEN UNCHANGED <<grVars, tmVars>>
    ELSE /\ WithinStore(features, currentLabel, cap)
         /\ AddTrainingDataBody(features, currentLabel)
         /\ sessionSamples' = sessionSamples + 1
         /\ IF AutoStop(sampleCount + 1)
            THEN /\ StopTrainingBody
                 /\ sampleCount' = 0
            ELSE /\ sampleCount' = sampleCount + 1
                 /\ UNCHANGED <<tmIsTraining, currentLabel>>
         /\ UNCHANGED <<model, isTraining>>

\* the callback of a frame (app.js 54-77) on the features extracted and the
\* prediction predict returns for them: the prediction is shown and enters
\* the history or the display is cleared, and during a training session the
\* features are captured; cap and pushCap bound the store and the history
OnResults(features, prediction, ml, cap, pushCap) ==
    IF features = NullFeatures
    THEN /\ ml.throws
         /\ lastOp' = Op("frame", "cleared")
         /\ UNCHANGED <<grVars, tmVars, asyncVars, appVars>>
    ELSE /\ ~ModelConsulted => ml.throws
         /\ predictionHistory' = processGestureFeatures(predictionHistory, prediction)
         /\ historyAdded' =
               IF predictionHistory' = predictionHistory
               THEN historyAdded ELSE historyAdded + 1
         /\ historyAdded' <= pushCap
         /\ lastOp' = [Op("frame", IF prediction.conf > DisplayAbove
                                   THEN "shown" ELSE "cleared") EXCEPT
                          !.letter = prediction.letter,
                          !.conf = prediction.conf,
                          !.ml = ModelConsulted,
                          !.features = features,
                          !.mlIndex = IF ModelConsulted THEN ml.index ELSE 0,
                          !.mlConf = IF ModelConsulted THEN ml.conf ELSE 0,
                          !.mlThrows = ModelConsulted /\ ml.throws]
         /\ CaptureOfFrame(features, cap)
         /\ UNCHANGED asyncVars

\* HandDetection.processResults(results) with landmarks the first hand of
\* results, NullLandmarks when there is none (part_000 316-347): the
\* features are extracted and handed to the callback, in which predict runs
\* on them; ml is what this.model.predict does on the features
Frame(landmarks, ml, cap, pushCap) ==
    OnResults(extractFeatures(landmarks),
              Arbitrate(extractFeatures(landmarks), ml), ml, cap, pushCap)

\* SignLanguageApp.clearHistory() (app.js 206-209)
ClearHistory ==
    /\ predictionHistory' = <<>>
    /\ historyAdded' = 0
    /\ lastOp' = Op("clearHistory", "ok")
    /\ UNCHANGED <<grVars, tmVars, asyncVars>>

\* the string an entry's letter contributes to Array.prototype.join: one
\* character for a letter, nothing for undefined or null
Joined(letter) == IF letter \in {"undefined", "null"} THEN <<>> ELSE <<letter>>

\* SignLanguageApp.getSpelledWord() on a history, as a sequence of characters
\* (app.js 201-203)
RECURSIVE SpelledWord(_)
SpelledWord(history) ==
    IF history = <<>> THEN <<>>
    ELSE Joined(Head(history).letter) \o SpelledWord(Tail(history))

\* SignLanguageApp.getSpelledWord()
getSpelledWord == SpelledWord(predictionHistory)

\* SignLanguageApp.getStats(), its counts (app.js 212-221)
getStats ==
    [totalPredictions |-> Len(predictionHistory),
     uniqueLetters |-> Cardinality({predictionHistory[i].letter : i \in DOMAIN predictionHistory})]

(***************************************************************************)
(* Specifications                                                          *)
(***************************************************************************)
\* feature vectors handed to addTrainingData
SampleInputs == {NullFeatures, 1}

\* labels handed to addTrainingData in Spec
LabelInputs == {"A", "a", "b", ""}

\* in Spec only the first MaxOther samples of the store are labelled other
\* than A
WithinOther(f, l) ==
    \/ AddRejected(f, l)
    \/ ToUpperCase(l) = "A"
    \/ Len(labels) < MaxOther

\* Spec: a page session from the constructors on; samples are collected, the
\* model is trained (possibly twice at a time) and frames are predicted
Next ==
    \/ \E f \in SampleInputs, l \in LabelInputs :
          WithinOther(f, l) /\ AddTrainingData(f, l, MaxAppends)
    \/ ClearTrainingData
    \/ \E f \in PredictInputs, ml \in MlOutputs : Predict(f, ml)
    \/ \E failAt \in FailPoints : TrainModel(failAt)
    \/ \E failAt \in FailPoints : TMTrainModel(failAt)
    \/ \E k \in 1 .. MaxRuns : FitResolve(k)
    \/ \E k \in 1 .. MaxRuns : FitReject(k)

Spec == Init /\ [][Next]_vars

\* the store of an earlier page session that collected the labels ls
RECURSIVE MapOfLabels(_, _)
MapOfLabels(ls, lm) ==
    IF ls = <<>> THEN lm ELSE MapOfLabels(Tail(ls), AddLabelMap(lm, Head(ls)))

\* the artifacts saveModel wrote in that session, its model trained
SavedDoc(ls) ==
    [present |-> TRUE, units |-> MapSize(MapOfLabels(ls, EmptyMap)), trained |-> TRUE,
     labelMap |-> ObjectFromEntries(MapOfLabels(ls, EmptyMap)),
     trainingData |-> [i \in DOMAIN ls |-> 1], labels |-> ls,
     saved |-> [stats |-> StatsOf(ls), labelMap |-> MapOfLabels(ls, EmptyMap),
                reverseMap |-> InvertMap(MapOfLabels(ls, EmptyMap))]]

\* the artifacts on disk when a page session of SpecStore starts
PriorDocs ==
    {SavedDoc(<<"A", "B", "A", "A", "A", "A", "A", "A", "A", "A">>),
     SavedDoc(<<"B", "A", "B", "B", "B", "B", "B", "B", "B", "B">>)}

InitStore ==
    /\ model = NoModel
    /\ isTraining = FALSE
    /\ trainingData = <<>>
    /\ labels = <<>>
    /\ labelMap = EmptyMap
    /\ reverseMap = EmptyMap
    /\ tmIsTraining = FALSE
    /\ currentLabel = ""
    /\ sampleCount = 0
    /\ runs = <<>>
    /\ loads = <<>>
    /\ saves = <<>>
    /\ disk \in PriorDocs
    /\ sessionSamples = 0
    /\ appended = 0
    /\ predictionHistory = <<>>
    /\ historyAdded = 0
    /\ lastOp = Op("init", "ok")

\* labels handed to addTrainingData in SpecStore
StoreLabelInputs == {"A", "b", "Q", ""}

\* SpecStore: a page session that finds the artifacts of an earlier session
\* on disk; samples are collected, the store cleared and models loaded
NextStore ==
    \/ \E f \in SampleInputs, l \in StoreLabelInputs : AddTrainingData(f, l, MaxStoreAppends)
    \/ ClearTrainingData
    \/ \E files \in FileSets : LoadModel(files)
    \/ \E files \in FileSets : TMLoadModel(files)
    \/ \E k \in 1 .. MaxLoads : LoadArtifactResolve(k)
    \/ \E k \in 1 .. MaxLoads : LoadArtifactReject(k)
    \/ \E k \in 1 .. MaxLoads, c \in Corruptions : LoadMetadata(k, c)

SpecStore == InitStore /\ [][NextStore]_vars

\* labels handed to addTrainingData in SpecArbiter
ArbiterLabelInputs == {"A", ""}

\* SpecArbiter: such a session with the per-frame predictions
NextArbiter ==
    \/ \E f \in SampleInputs, l \in ArbiterLabelInputs :
          AddTrainingData(f, l, MaxStoreAppends)
    \/ ClearTrainingData
    \/ \E files \in FileSets : LoadModel(files)
    \/ \E k \in 1 .. MaxLoads : LoadArtifactResolve(k)
    \/ \E k \in 1 .. MaxLoads : LoadArtifactReject(k)
    \/ \E k \in 1 .. MaxLoads, c \in Corruptions : LoadMetadata(k, c)
    \/ \E f \in PredictInputs, ml \in MlOutputs : Predict(f, ml)

SpecArbiter == InitStore /\ [][NextArbiter]_vars

\* label field values and feature vectors of a training session
SessionLabels == {"Q", "q"}
SessionInputs == {NullFeatures, 1}

\* SpecSession: training sessions on the control surface
NextSession ==
    \/ \E v \in SessionLabels : ToggleTraining(v)
    \/ \E l \in SessionLabels \cap Letters : StartTraining(l)
    \/ StopTraining
    \/ \E f \in SessionInputs : CaptureTrainingData(f, MaxSessionAppends)

SpecSession == Init /\ [][NextSession]_vars

\* labels handed to addTrainingData in SpecRound
RoundLabelInputs == {"Q", ""}

\* SpecRound: a page session that loads the artifacts of an earlier session,
\* collects samples, saves and loads what it saved
NextRound ==
    \/ \E f \in SampleInputs, l \in RoundLabelInputs :
          AddTrainingData(f, l, MaxRoundAppends)
    \/ ClearTrainingData
    \/ \E files \in {fs \in FileSets : AllArtifacts(fs)} : LoadModel(files)
    \/ \E k \in 1 .. MaxLoads : LoadArtifactResolve(k)
    \/ \E k \in 1 .. MaxLoads : LoadMetadata(k, "none")
    \/ SaveModel
    \/ \E k \in 1 .. MaxSaves : SaveResolve(k)
    \/ \E k \in 1 .. MaxSaves : SaveReject(k)

SpecRound == InitStore /\ [][NextRound]_vars

\* a page session in which loadModel has just restored the artifacts of an
\* earlier session
InitLoaded ==
    \E doc \in PriorDocs :
        /\ model = [src |-> "load", id |-> 0, units |-> doc.units, trained |-> doc.trained]
        /\ isTraining = FALSE
        /\ trainingData = LoadedData(doc, "none")
        /\ labels = LoadedLabels(doc, "none")
        /\ labelMap = LoadedLabelMap(doc, "none")
        /\ reverseMap = InvertMap(LoadedLabelMap(doc, "none"))
        /\ tmIsTraining = FALSE
        /\ currentLabel = ""
        /\ sampleCount = 0
        /\ runs = <<>>
        /\ loads = <<>>
        /\ saves = <<>>
        /\ disk = doc
        /\ sessionSamples = 0
        /\ appended = 0
        /\ predictionHistory = <<>>
        /\ historyAdded = 0
        /\ lastOp = Op("loadMetadata", "loaded")

\* labels handed to addTrainingData in SpecAppend
AppendLabelInputs == {"A", "Q", ""}

\* what this.model.predict does in SpecAppend: index 0 with probability 0.9
AppendMlOutputs == {ml \in MlOutputs : ml.throws \/ (ml.index = 0 /\ ml.conf = 90)}

\* SpecAppend: after the load, samples are collected, the model is retrained
\* and saved and frames are predicted
NextAppend ==
    \/ \E f \in SampleInputs, l \in AppendLabelInputs :
          AddTrainingData(f, l, MaxRoundAppends)
    \/ CallGetTrainingStats
    \/ \E ml \in AppendMlOutputs : Predict(6, ml)
    \/ TrainModel("none")
    \/ \E k \in 1 .. MaxRuns : FitResolve(k)
    \/ SaveModel
    \/ \E k \in 1 .. MaxSaves : SaveResolve(k)

SpecAppend == InitLoaded /\ [][NextAppend]_vars

\* feature vectors and labels handed to addTrainingData in SpecInputs, and
\* values of the label field
InputFeatures == {NullFeatures, 1, 9, 10}
InputLabels == {"A", "a", "7", ""}
InputFieldValues == {"Q", "q", "7", ""}

\* SpecInputs: samples arrive through direct addTrainingData calls and
\* through training sessions
NextInputs ==
    \/ \E f \in InputFeatures, l \in InputLabels : AddTrainingData(f, l, MaxInputAppends)
    \/ ClearTrainingData
    \/ \E v \in InputFieldValues : ToggleTraining(v)
    \/ \E f \in InputFeatures : CaptureTrainingData(f, MaxInputAppends)

SpecInputs == Init /\ [][NextInputs]_vars

\* landmark arrays handed to extractFeatures: null, and arrays of up to
\* MaxLandmarks landmarks of the hands 1 and 6
LandmarkInputs == {NullLandmarks} \cup [count : 0 .. MaxLandmarks, hand : {1, 6}]

\* feature vectors handed to predict in SpecRules
RuleInputs == {NullFeatures} \cup (1 .. 11) \cup GridVectors

\* SpecRules: the pure functions of a frame with no trained model:
\* extractFeatures on landmark arrays and predict on feature vectors
NextRules ==
    \/ \E landmarks \in LandmarkInputs : ExtractFeatures(landmarks)
    \/ \E f \in RuleInputs, ml \in MlOutputs : Predict(f, ml)

SpecRules == Init /\ [][NextRules]_vars

\* what may be wrong with the metadata file in SpecForeign
ForeignCorruptions == {"none", "sparseLabelMap"}

\* SpecForeign: a page session that loads artifacts whose metadata file may
\* have been written by another program
NextForeign ==
    \/ \E f \in SampleInputs, l \in StoreLabelInputs : AddTrainingData(f, l, MaxStoreAppends)
    \/ ClearTrainingData
    \/ \E files \in {fs \in FileSets : AllArtifacts(fs)} : LoadModel(files)
    \/ \E k \in 1 .. MaxLoads : LoadArtifactResolve(k)
    \/ \E k \in 1 .. MaxLoads, c \in ForeignCorruptions : LoadMetadata(k, c)

SpecForeign == InitStore /\ [][NextForeign]_vars

\* the hands of the frames of SpecHistory: none, a fist (A), an L, and a
\* hand no rule knows
HistoryLandmarks ==
    {NullLandmarks} \cup [count : {MinLandmarks}, hand : {1, 6, 8}]

\* what this.model.predict does in SpecHistory: it throws, or favours index
\* 0 with probability 0.6 or index 1 with probability 0.9
HistoryMlOutputs ==
    {ml \in MlOutputs : \/ ml.throws
                        \/ (ml.index = 0 /\ ml.conf = 60)
                        \/ (ml.index = 1 /\ ml.conf = 90)}

\* a page session in which loadModel has just restored the artifacts of the
\* earlier session whose first label was A
InitHistory == InitLoaded /\ reverseMap[0] = "A"

\* SpecHistory: the frames of a page session whose model was loaded; the
\* history is cleared now and then
NextHistory ==
    \/ \E landmarks \in HistoryLandmarks, ml \in HistoryMlOutputs :
          Frame(landmarks, ml, 0, MaxHistoryAdded)
    \/ ClearHistory

SpecHistory == InitHistory /\ [][NextHistory]_vars

\* the hands of the frames of SpecWord: none, a fist (A) and a hand no rule
\* knows
WordLandmarks == {NullLandmarks} \cup [count : {MinLandmarks}, hand : {1, 8}]

\* what this.model.predict does in SpecWord: it throws, or favours an index
\* with probability 0.9
WordMlOutputs == {ml \in MlOutputs : ml.throws \/ ml.conf = 90}

\* SpecWord: a page session that collects a sample and loads the artifacts
\* of an earlier session while frames arrive
NextWord ==
    \/ \E l \in ArbiterLabelInputs : AddTrainingData(1, l, MaxWordAppends)
    \/ \E files \in {fs \in FileSets : AllArtifacts(fs)} : LoadModel(files)
    \/ \E k \in 1 .. MaxLoads : LoadArtifactResolve(k)
    \/ \E k \in 1 .. MaxLoads : LoadMetadata(k, "none")
    \/ \E landmarks \in WordLandmarks, ml \in WordMlOutputs :
          Frame(landmarks, ml, 0, MaxWordAdded)
    \/ ClearHistory

SpecWord == InitStore /\ [][NextWord]_vars

(***************************************************************************)
(* Claims                                                                  *)
(***************************************************************************)
\* Map values
Range(m) == {m[x] : x \in DOMAIN m}

\* the calls of GestureRecognition.trainModel and its continuations
TrainOps == {"trainModel", "TrainingManager.trainModel", "fit"}

\* C1: when a trainModel run fails after it has installed its model or while
\* fit is awaited, the model installed before the call is still this.model
\* and the call ended with an error.
C1_FailedRunKeepsModel ==
    (lastOp.op \in TrainOps /\ lastOp.res = "error" /\ lastOp.run > 0)
        => /\ runs[lastOp.run].status = "rejected"
           /\ model = runs[lastOp.run].prevModel

\* C2: a predict call that consults the trainable classifier uses a model
\* whose training has finished (the model of a resolved run or a loaded
\* model), never the model of a run that is in flight or has failed.
C2_PredictUsesTrainedModel ==
    (lastOp.op = "predict" /\ lastOp.ml) => FullyTrained(model)

\* C3: at most one training run is in flight.
C3_OneRunInFlight == Cardinality(InFlight) <= 1

\* C4: an addTrainingData call with non-empty arguments appends exactly its
\* sample, also while a run is in flight, and a run that resolved trained on
\* exactly the samples and label indices of the store at its start.
C4_RunTrainsOnSnapshot ==
    [][/\ (lastOp'.op = "addTrainingData" /\ lastOp'.features # NullFeatures
                                          /\ lastOp'.label # "")
            => /\ trainingData' = Append(trainingData, lastOp'.features)
               /\ labels' = Append(labels, ToUpperCase(lastOp'.label))
       /\ \A k \in DOMAIN runs' :
            runs'[k].status = "resolved"
                => /\ runs'[k].trainedX = runs'[k].startData
                   /\ runs'[k].trainedY =
                          LabelIndices(runs'[k].startLabels, runs'[k].startMap)]_vars

\* C4 witness: fit has just resolved in a run over two labels during which
\* a sample was appended: the store is the run's start store plus one sample.
C4_Witness ==
    /\ lastOp.op = "fit" /\ lastOp.res = "resolved"
    /\ Range(runs[lastOp.run].trainedY) = {0, 1}
    /\ Len(trainingData) = Len(runs[lastOp.run].startData) + 1
    /\ SubSeq(trainingData, 1, Len(trainingData) - 1) = runs[lastOp.run].startData
    /\ runs[lastOp.run].trainedX = runs[lastOp.run].startData

\* C5: a session is active only below 50 captured samples, and completion
\* is signalled exactly at the 50th sample of the session.
C5_AutoStopAtFiftieth ==
    /\ tmIsTraining => sessionSamples < AutoStopSamples
    /\ (lastOp.op = "captureTrainingData" /\ lastOp.res = "complete")
           => sessionSamples = AutoStopSamples

\* the indices of labelMap are 0 .. size-1, each used once
Dense(lm) ==
    /\ Range(lm) = 0 .. (MapSize(lm) - 1)
    /\ \A a, b \in DOMAIN lm : lm[a] = lm[b] => a = b

ReplacesStore(op) == op.op = "clearTrainingData" \/ (op.op = "loadMetadata" /\ op.res = "loaded")

C7_NullUntilTrained ==
    (\A k \in DOMAIN runs : runs[k].status # "resolved") => model = NoModel

\* C8: a call of GestureRecognition.trainModel with fewer than 10 samples
\* ends with the insufficient-data error and changes nothing; with 10 or
\* more samples it passes the gate.
C8_SampleGate ==
    [][lastOp'.op = "trainModel"
         => IF Len(trainingData) < MinSamples
            THEN /\ lastOp'.res = "InsufficientData"
                 /\ UNCHANGED <<model, isTraining, trainingData, labels, labelMap,
                                reverseMap, runs>>
            ELSE lastOp'.res # "InsufficientData"]_vars

\* C8 witness: trainModel was refused with 9 samples in the store.
C8_Witness ==
    /\ lastOp.op = "trainModel" /\ lastOp.res = "InsufficientData"
    /\ Len(trainingData) = MinSamples - 1

\* C9: whenever a model is loaded, predict on non-null features consults the
\* trainable classifier, and when the classifier yields index i with
\* confidence m the result is (reverseMap[i], m) if m exceeds the rule
\* confidence held, and the rule result otherwise.
C9_ArbiterSelection ==
    (lastOp.op = "predict" /\ lastOp.res = "record" /\ model # NoModel)
        => /\ lastOp.ml
           /\ ~lastOp.mlThrows
                => Best(lastOp.letter, lastOp.conf) =
                       IF lastOp.mlConf > RuleBest(lastOp.features).conf
                       THEN Best(ReverseGet(lastOp.mlIndex), lastOp.mlConf)
                       ELSE RuleBest(lastOp.features)

\* C10: predict on non-null features with no rule detector above 0.5 and no
\* model loaded returns null.
C10_NullWhenNoSource ==
    (/\ lastOp.op = "predict"
     /\ lastOp.features # NullFeatures
     /\ \A i \in DOMAIN basicRules : Detector(basicRules[i], lastOp.features) <= RuleThreshold
     /\ model = NoModel)
        => lastOp.res = "null"

\* C11: when loadModel reads back metadata that saveModel wrote, the store
\* has the getTrainingStats() output, the labelMap and the reverseMap it had
\* when the metadata was written.
C11_RoundTrip ==
    [][\A k \in DOMAIN loads :
         LoadMetadata(k, "none")
             => /\ StatsOf(labels') = loads[k].doc.saved.stats
                /\ labelMap' = loads[k].doc.saved.labelMap
                /\ reverseMap' = loads[k].doc.saved.reverseMap]_vars

\* C11 witness: loadModel has read back metadata saved in this session after
\* a sample with the new label Q was appended to the two restored labels.
C11_Witness ==
    /\ lastOp.op = "loadMetadata" /\ lastOp.res = "loaded"
    /\ model # NoModel
    /\ Len(trainingData) = 11
    /\ DOMAIN labelMap = {"A", "B", "Q"}
    /\ reverseMap[2] = "Q"
    /\ getTrainingStats["Q"] = 1
    /\ disk.saved.stats = getTrainingStats

\* the metadata documents that lack one of the three fields
MissingField == {"noLabelMap", "noTrainingData", "noLabels"}

\* C12: when loadModel reads a metadata document that lacks labelMap,
\* trainingData or labels, the call ends with an error.
C12_MissingFieldRejected ==
    [][\A k \in DOMAIN loads, c \in MissingField :
         LoadMetadata(k, c) => lastOp'.res = "error"]_vars

\* the selections that lack at least one of the three artifacts
Incomplete == FileSets \ {[model |-> TRUE, weights |-> TRUE, metadata |-> TRUE]}

\* C13: loadModel with an incomplete set of artifacts ends with the
\* missing-files error and leaves model, trainingData, labels, labelMap and
\* reverseMap unchanged, also when TrainingManager.loadModel passes on two
\* selected files (with fewer it alerts and changes nothing).
C13_MissingArtifact ==
    [][\A files \in Incomplete :
         /\ LoadModel(files)
              => /\ lastOp'.res = "MissingFiles"
                 /\ UNCHANGED <<model, trainingData, labels, labelMap, reverseMap>>
         /\ TMLoadModel(files)
              => /\ lastOp'.res = IF FilesLength(files) = 2 THEN "MissingFiles" ELSE "alert"
                 /\ UNCHANGED <<model, trainingData, labels, labelMap, reverseMap>>]_vars

\* C13 witness: with a model and ten samples loaded, TrainingManager.loadModel
\* was given two files and ended with the missing-files error.
C13_Witness ==
    /\ lastOp.op = "TrainingManager.loadModel" /\ lastOp.res = "MissingFiles"
    /\ model # NoModel
    /\ Len(trainingData) = 10
    /\ loads = <<>>

\* a feature argument that is null or an array without elements
NullOrEmpty(features) == Hand(features).len = 0

\* C14: addTrainingData changes neither the store nor the label mappings
\* when features is null or an empty array or label is null or empty;
\* otherwise it appends the sample under the uppercased label.
C14_RejectsNullOrEmpty ==
    [][lastOp'.op = "addTrainingData"
         => IF NullOrEmpty(lastOp'.features) \/ lastOp'.label = ""
            THEN UNCHANGED <<trainingData, labels, labelMap, reverseMap>>
            ELSE /\ trainingData' = Append(trainingData, lastOp'.features)
                 /\ labels' = Append(labels, ToUpperCase(lastOp'.label))]_vars

\* the sum of the values of f over the keys in S
RECURSIVE SumOver(_, _)
SumOver(f, S) ==
    IF S = {}
    THEN 0
    ELSE f[CHOOSE x \in S : TRUE] + SumOver(f, S \ {CHOOSE x \in S : TRUE})

\* the samples of the store that carry label l
SamplesLabelled(l) == {i \in DOMAIN trainingData : i \in DOMAIN labels /\ labels[i] = l}

\* C15: getTrainingStats() maps each label to the number of samples in the
\* store that carry it, has no other keys, and its counts sum to
\* trainingData.length.
C15_StatsCountSamples ==
    /\ \A l \in DOMAIN getTrainingStats :
          /\ SamplesLabelled(l) # {}
          /\ getTrainingStats[l] = Cardinality(SamplesLabelled(l))
    /\ SumOver(getTrainingStats, DOMAIN getTrainingStats) = Len(trainingData)

\* C16: captureTrainingData changes neither the store, the label mappings,
\* sampleCount nor the session state when no session is active or features
\* is null.
C16_CaptureNoOp ==
    [][\A f \in SessionInputs :
         (CaptureTrainingData(f, MaxSessionAppends) /\ (~tmIsTraining \/ f = NullFeatures))
             => UNCHANGED <<trainingData, labels, labelMap, reverseMap,
                            sampleCount, tmIsTraining, currentLabel>>]_vars

\* C16 witness: a frame arrived after a session that had captured samples
\* was stopped, and captureTrainingData returned without storing it.
C16_Witness ==
    /\ lastOp.op = "captureTrainingData" /\ lastOp.res = "noop"
    /\ ~tmIsTraining
    /\ sampleCount > 0
    /\ Len(trainingData) = sampleCount

\* C17: when predict consults the trainable classifier and it yields an
\* arg-max index, reverseMap has an entry for that index and the letter
\* returned is not undefined.
C17_IndexHasLabel ==
    (lastOp.op = "predict" /\ lastOp.ml /\ ~lastOp.mlThrows)
        => /\ lastOp.mlIndex \in DOMAIN reverseMap
           /\ lastOp.letter # "undefined"

\* the calls that only read the store
ReadsStore == {"predict", "trainModel", "fit", "saveModel", "save", "getTrainingStats"}

\* C18: an accepted addTrainingData puts exactly its sample at the end of
\* the store; no call but clearTrainingData and loadModel removes, moves or
\* changes a stored sample or a label index; predict, trainModel, saveModel
\* and getTrainingStats leave trainingData, labels and labelMap unchanged.
C18_AppendOnly ==
    [][/\ (lastOp'.op = "addTrainingData" /\ lastOp'.res = "added")
            => /\ trainingData' = Append(trainingData, lastOp'.features)
               /\ labels' = Append(labels, ToUpperCase(lastOp'.label))
       /\ ~ReplacesStore(lastOp')
            => /\ Len(trainingData') >= Len(trainingData)
               /\ SubSeq(trainingData', 1, Len(trainingData)) = trainingData
               /\ Len(labels') >= Len(labels)
               /\ SubSeq(labels', 1, Len(labels)) = labels
               /\ \A l \in DOMAIN labelMap :
                     l \in DOMAIN labelMap' /\ labelMap'[l] = labelMap[l]
       /\ lastOp'.op \in ReadsStore
            => UNCHANGED <<trainingData, labels, labelMap>>]_vars

\* C18 witness: while a run is in flight a sample equal to the last stored
\* one was appended behind it.
C18_Witness ==
    /\ lastOp.op = "addTrainingData" /\ lastOp.res = "added"
    /\ InFlight # {}
    /\ Len(trainingData) = 11
    /\ trainingData[11] = trainingData[10]
    /\ labels[11] = labels[10]

\* C19: every feature vector in trainingData has the length of the vectors
\* extractFeatures builds from a hand of 21 landmarks, 73.
C19_FixedLength ==
    \A i \in DOMAIN trainingData :
        Hand(trainingData[i]).len = ExtractedLength(MinLandmarks)

\* the single uppercase ASCII letters
UpperCaseLetters ==
    {"A", "B", "C", "D", "E", "F", "G", "H", "I", "J", "K", "L", "M",
     "N", "O", "P", "Q", "R", "S", "T", "U", "V", "W", "X", "Y", "Z"}

\* C20: every entry of labels and every key of labelMap is a single
\* uppercase letter A-Z.
C20_UppercaseLetters ==
    /\ \A i \in DOMAIN labels : labels[i] \in UpperCaseLetters
    /\ DOMAIN labelMap \subseteq UpperCaseLetters

\* C21: extractFeatures returns null for null landmarks and for fewer than
\* 21 of them, and for every other array a vector of exactly 73 numbers.
C21_SeventyThreeOrNull ==
    [][\A landmarks \in LandmarkInputs :
          ExtractFeatures(landmarks) =>
              IF landmarks = NullLandmarks \/ landmarks.count < MinLandmarks
              THEN lastOp'.res = "null"
              ELSE /\ lastOp'.res = "vector"
                   /\ Hand(lastOp'.features).len = ExtractedLength(MinLandmarks)]_vars

\* C22: when the trainable classifier fails while predict runs, the caller
\* of predict gets an error, not the rule-based result.
C22_ClassifierFailureSurfaces ==
    (lastOp.op = "predict" /\ lastOp.mlThrows) => lastOp.res = "error"

\* the highest confidence a detector of the registry returns on the vector
MaxScore(features) ==
    CHOOSE c \in {Detector(basicRules[i], features) : i \in DOMAIN basicRules} :
        \A i \in DOMAIN basicRules : Detector(basicRules[i], features) <= c

\* the first letter of the registry whose detector returns confidence c
FirstWithScore(features, c) ==
    basicRules[CHOOSE i \in DOMAIN basicRules :
                  /\ Detector(basicRules[i], features) = c
                  /\ \A j \in 1 .. (i - 1) : Detector(basicRules[j], features) # c]

\* C23: without a trained model predict returns the first letter, in the
\* registry order A, B, C, D, L, O, Y, whose detector reaches the highest
\* confidence, provided that confidence is above 0.5, and no letter
\* otherwise; of two detectors with equal confidence the earlier one wins.
C23_FirstMaximumWins ==
    /\ basicRules = <<"A", "B", "C", "D", "L", "O", "Y">>
    /\ (lastOp.op = "predict" /\ lastOp.res = "record" /\ ~lastOp.ml) =>
          IF MaxScore(lastOp.features) > RuleThreshold
          THEN /\ lastOp.letter = FirstWithScore(lastOp.features, MaxScore(lastOp.features))
               /\ lastOp.conf = MaxScore(lastOp.features)
          ELSE /\ lastOp.letter = "null"
               /\ lastOp.conf = 0

\* predict has chosen C on a hand on which detectC and detectO both return 0.7
C23_Witness ==
    /\ lastOp.op = "predict" /\ lastOp.res = "record" /\ ~lastOp.ml
    /\ detectC(lastOp.features) = 70
    /\ detectO(lastOp.features) = 70
    /\ MaxScore(lastOp.features) = 70
    /\ lastOp.letter = "C"

\* the fingers (0 thumb .. 4 pinky) a detector requires to be extended or
\* closed
RequiredFingers(letter) ==
    CASE letter = "A" -> {1, 2, 3, 4}
      [] letter = "D" -> {1, 2, 3, 4}
      [] letter \in {"B", "L", "Y"} -> {0, 1, 2, 3, 4}
      [] OTHER -> {}

\* a distance neither closed (< 0.15) nor extended (> 0.20)
MidRange(distance) == distance >= ClosedBelow /\ distance <= ExtendedAbove

\* C24: a detector returns the low score 0.1 on every hand on which one of
\* the fingers it requires to be extended or closed is between 0.15 and
\* 0.20 from its base.
C24_MidRangeScoresLow ==
    (lastOp.op = "predict" /\ lastOp.res = "record"
        /\ Hand(lastOp.features).len = ExtractedLength(MinLandmarks)) =>
        \A letter \in {"A", "B", "D", "L", "Y"} :
            (\E finger \in RequiredFingers(letter) :
                MidRange(getFingerDistance(lastOp.features, finger)))
            => Detector(letter, lastOp.features) = 10

\* C25: when the fit of a trainModel run resolves, this.model is the model
\* that run built and trained, whatever was called while it was in flight.
C25_ResolvedRunIsInstalled ==
    (lastOp.op = "fit" /\ lastOp.res = "resolved") => model = runs[lastOp.run].mdl

\* C26: a loadModel call that fails on its metadata, after the model
\* artifact was read, leaves this.model and the store as they were before
\* the call.
C26_FailedLoadKeepsState ==
    [][\A k \in DOMAIN loads :
          LoadMetadata(k, "unparsable") =>
              /\ model' = loads[k].prevModel
              /\ UNCHANGED storeVars]_vars

\* C27: labelMap and reverseMap are inverse bijections between the labels
\* and the indices 0 .. size - 1, after every addTrainingData,
\* clearTrainingData and loadModel.
C27_InverseBijections ==
    /\ Dense(labelMap)
    /\ DOMAIN reverseMap = 0 .. (MapSize(labelMap) - 1)
    /\ \A l \in DOMAIN labelMap :
          labelMap[l] \in DOMAIN reverseMap /\ reverseMap[labelMap[l]] = l
    /\ \A i \in DOMAIN reverseMap :
          reverseMap[i] \in DOMAIN labelMap /\ labelMap[reverseMap[i]] = i

\* C28: trainingData and labels have the same length and every label in
\* labels is a key of labelMap, also after loadModel.
C28_ParallelArrays ==
    /\ Len(trainingData) = Len(labels)
    /\ \A i \in DOMAIN labels : labels[i] \in DOMAIN labelMap

\* C30: predictionHistory never holds more than maxHistoryLength (10)
\* entries and every entry has a confidence above 0.6; an entry added to a
\* full history takes the place of the oldest one and the others keep their
\* order; getStats().totalPredictions is never above 10.
C30_BoundedHistory ==
    [][/\ Len(predictionHistory') <= maxHistoryLength
       /\ \A i \in DOMAIN predictionHistory' :
             predictionHistory'[i].confidence > HistoryAbove
       /\ getStats'.totalPredictions <= maxHistoryLength
       /\ (Len(predictionHistory) = maxHistoryLength
             /\ predictionHistory' # predictionHistory /\ predictionHistory' # <<>>)
          => /\ Len(predictionHistory') = maxHistoryLength
             /\ \A i \in 1 .. (maxHistoryLength - 1) :
                   predictionHistory'[i] = predictionHistory[i + 1]
             /\ predictionHistory'[maxHistoryLength].letter = lastOp'.letter
             /\ predictionHistory'[maxHistoryLength].confidence = lastOp'.conf]_vars

\* a frame has added an entry to a full history, with three different letters
\* in it
C30_Witness ==
    /\ lastOp.op = "frame" /\ lastOp.res = "shown"
    /\ Len(predictionHistory) = maxHistoryLength
    /\ historyAdded > maxHistoryLength
    /\ predictionHistory[maxHistoryLength].letter = lastOp.letter
    /\ getStats.uniqueLetters = 3

\* no two neighbours of the sequence are equal
NoRepeat(s) == \A i \in 1 .. (Len(s) - 1) : s[i] # s[i + 1]

\* C29: no two adjacent entries of predictionHistory have the same letter,
\* and so the word getSpelledWord returns never has the same letter twice
\* in a row.
C29_NoLetterTwiceInARow ==
    /\ NoRepeat([i \in DOMAIN predictionHistory |-> predictionHistory[i].letter])
    /\ NoRepeat(getSpelledWord)

====
